---- MODULE Spec2Model ----
(***************************************************************************)
(* Vote sessions of the lunch-voting backend: the session lifecycle        *)
(* (create, add/remove restaurants, start, end, lazy auto-close), the      *)
(* weighted vote ledger and the results read.                              *)
(*                                                                         *)
(* Every HTTP request runs in its own database transaction (get_db).  A    *)
(* request that writes is modelled in two steps: its reads and checks,     *)
(* which see the committed rows, and its flush+commit, which writes by     *)
(* primary key whatever it decided on what it read.  Requests of           *)
(* different workers interleave between the two steps.  The only           *)
(* constraint the database enforces at flush time is the unique            *)
(* constraint of vote_participation and the primary key of the junction    *)
(* table.  Weights are in hundredths (1.0 = 100).                          *)
(***************************************************************************)
EXTENDS Integers, Sequences, FiniteSets, TLC

\* ---------------------------------------------------------------- bounds
MaxUsers == 2
MaxRestaurants == 2
MaxSessions == 1
MaxTime == 1
MaxWorkers == 2
MaxVotesPerUser == 3
MaxIds == 2
MaxOffset == 1
MaxDailyVotes == 3
TicksPerDay == 2

Users == 1..MaxUsers
\* rows of the restaurant table
Restaurants == 1..MaxRestaurants
\* ids a request may name: the last one resolves to no restaurant
RestaurantIds == 1..(MaxRestaurants + 1)
SessionIds == 1..MaxSessions
Workers == 1..MaxWorkers
Times == 0..MaxTime
\* the restaurant_ids lists a request may carry
IdLists == UNION {[1..n -> RestaurantIds] : n \in 0..MaxIds}

\* a NULL column
None == 0 - 1

\* the UTC offsets the server's local zone may have when a request is served
LocalOffsets == (0 - MaxOffset)..MaxOffset
\* timedelta(days=30) in clock units: longer than the clock runs
ThirtyDays == MaxTime + MaxOffset + 1
\* an auto_close_at beyond every permitted one
FarFuture == MaxTime + MaxOffset + ThirtyDays + 1
\* Field(ge=1, le=10) of votes_per_user
votes_per_user_ge == 1
votes_per_user_le == 10

\* ---------------------------------------------------------------- values
DRAFT == "draft"
ACTIVE == "active"
CLOSED == "closed"

\* the error kinds the ValueError messages stand for
Ok == "ok"
NotFound == "NotFound"
Forbidden == "Forbidden"
InvalidState == "InvalidState"
NotMember == "NotMember"
BudgetExhausted == "BudgetExhausted"
ConstraintViolation == "ConstraintViolation"
Unprocessable == "Unprocessable"
\* an IntegrityError no handler catches (HTTP 500)
IntegrityError == "IntegrityError"
\* an error of the storage (OperationalError) no handler catches (HTTP 500)
StorageError == "StorageError"
\* an AttributeError no handler catches
AttributeError == "AttributeError"

VARIABLES
    now,                      \* the wall clock (datetime.now)
    restaurant,               \* committed rows of restaurant, indexed by id
    vote,                     \* committed rows of vote (the daily vote), indexed by id
    vote_session,             \* committed rows of vote_session, indexed by id
    vote_session_restaurants, \* committed rows of the junction table: <<session, restaurant>>
    vote_participation,       \* committed rows of vote_participation
    txn,                      \* per worker: the request in flight between its reads and its commit
    last                      \* the response of the request that finished last

db == <<restaurant, vote, vote_session, vote_session_restaurants, vote_participation>>
vars == <<now, restaurant, vote, vote_session, vote_session_restaurants, vote_participation, txn, last>>

Idle ==
    [op |-> "idle", sid |-> 0, user_id |-> 0, rids |-> {}, seq |-> 0,
     weight |-> 0, at |-> None, closing |-> {},
     status |-> "", ended_at |-> None, results |-> <<>>,
     votes_per_user |-> 0, auto_close_at |-> None]

Response(op, sid, res, seq, status, ended_at) ==
    [op |-> op, sid |-> sid, res |-> res, seq |-> seq,
     status |-> status, ended_at |-> ended_at]

NoResponse == Response("none", 0, Ok, 0, "", None)

\* the body of GET /vote-sessions/{session_id} (VoteSessionWithResults)
VoteSessionWithResults(sid, res, status, ended_at, results, total_votes) ==
    [op |-> "read", sid |-> sid, res |-> res, seq |-> 0,
     status |-> status, ended_at |-> ended_at,
     results |-> results, total_votes |-> total_votes]

\* the restaurant table after both migrations: the columns the Restaurant
\* class maps (name stands for them) and the is_active column the second
\* migration adds and fills with true
restaurant_rows ==
    [r \in Restaurants |-> [name |-> "R" \o ToString(r), is_active |-> TRUE]]

\* ---------------------------------------------------------------- queries
session_restaurants(sid) ==
    {r \in Restaurants : <<sid, r>> \in vote_session_restaurants}

user_votes(sid, uid) ==
    {v \in vote_participation : v.vote_session_id = sid /\ v.user_id = uid}

user_vote_count(sid, uid) == Cardinality(user_votes(sid, uid))

\* Weight with the third tier forgotten
Weight_two_tiers(vote_sequence) ==
    IF vote_sequence = 1 THEN 100 ELSE 50

\* Weighted voting logic: 1st = 1.0, 2nd = 0.5, 3rd+ = 0.25
Weight(vote_sequence) ==
    IF vote_sequence = 1 THEN 100
    ELSE IF vote_sequence = 2 THEN 50
    ELSE 25

\* ---------------------------------------------------------------- results
session_votes(sid) == {v \in vote_participation : v.vote_session_id = sid}

RECURSIVE sum_weight(_)
\* func.sum(VoteParticipation.weight); the weights are multiples of 0.25, so
\* the Float sums are exact and float() changes nothing
sum_weight(votes) ==
    IF votes = {} THEN 0
    ELSE LET v == CHOOSE x \in votes : TRUE
         IN  v.weight + sum_weight(votes \ {v})

\* the groups of the join of restaurant and vote_participation
voted_restaurants(sid) ==
    {r \in DOMAIN restaurant : \E v \in session_votes(sid) : v.restaurant_id = r}

restaurant_votes(sid, r) == {v \in session_votes(sid) : v.restaurant_id = r}

\* the voters counted per row instead of per distinct user
count_user_id(sid, r) == Cardinality(restaurant_votes(sid, r))

\* func.count(func.distinct(VoteParticipation.user_id))
count_distinct_user_id(sid, r) ==
    Cardinality({v.user_id : v \in restaurant_votes(sid, r)})

result_row(sid, r) ==
    [restaurant_id |-> r,
     restaurant_name |-> restaurant[r].name,
     weighted_votes |-> sum_weight(restaurant_votes(sid, r)),
     distinct_voters |-> count_distinct_user_id(sid, r)]

\* ORDER BY sum(weight) DESC, count(distinct user_id) DESC: row a may precede row b
order_by(a, b) ==
    \/ a.weighted_votes > b.weighted_votes
    \/ /\ a.weighted_votes = b.weighted_votes
       /\ a.distinct_voters >= b.distinct_voters

\* the row lists the results query may return: the database is free to
\* return rows that tie on both sort keys in either order
results_query(sid) ==
    LET rows == {result_row(sid, r) : r \in voted_restaurants(sid)}
        n == Cardinality(rows)
    IN  {q \in [1..n -> rows] :
            /\ \A i \in 1..n, j \in 1..n : i # j => q[i] # q[j]
            /\ \A i \in 1..n, j \in 1..n : i < j => order_by(q[i], q[j])}

\* the total_votes query; NULL (no rows) is reported as 0
total_votes_query(sid) == sum_weight(session_votes(sid))

\* the restaurants the query of end_session_with_winner may return as
\* .first(): a group no other group precedes strictly; None without votes
winning_restaurant_query(sid) ==
    IF voted_restaurants(sid) = {} THEN {None}
    ELSE {r \in voted_restaurants(sid) :
            \A r2 \in voted_restaurants(sid) :
                order_by(result_row(sid, r), result_row(sid, r2))}

\* ---------------------------------------------------------------- sweep
\* the active sessions with an auto_close_at, passed or not
sessions_to_close_any_deadline(t) ==
    {s \in DOMAIN vote_session :
        /\ vote_session[s].status = ACTIVE
        /\ vote_session[s].auto_close_at # None}

\* the active sessions that have passed their auto_close_at at time t
sessions_to_close(t) ==
    {s \in DOMAIN vote_session :
        /\ vote_session[s].status = ACTIVE
        /\ vote_session[s].auto_close_at # None
        /\ vote_session[s].auto_close_at <= t}

\* the rows after the sweep's UPDATEs are committed
closed_rows(rows, closing, t) ==
    [s \in DOMAIN rows |->
        IF s \in closing
        THEN [rows[s] EXCEPT !.status = CLOSED, !.ended_at = t]
        ELSE rows[s]]

\* the table without its unique constraint
no_unique_constraint(sid, uid, seq) == TRUE

\* a unique constraint that leaves out user_id
unique_vote_sequence_per_session(sid, uid, seq) ==
    ~ \E v \in vote_participation :
        v.vote_session_id = sid /\ v.vote_sequence = seq

\* UniqueConstraint(vote_session_id, user_id, vote_sequence)
unique_user_vote_sequence_per_session(sid, uid, seq) ==
    ~ \E v \in vote_participation :
        v.vote_session_id = sid /\ v.user_id = uid /\ v.vote_sequence = seq

\* ---------------------------------------------------------------- clock
Tick ==
    /\ now < MaxTime
    /\ now' = now + 1
    /\ UNCHANGED <<db, txn, last>>

\* ---------------------------------------------------------------- create
\* VoteSessionBase.votes_per_user
votes_per_user_valid(votes_per_user) ==
    votes_per_user >= votes_per_user_ge /\ votes_per_user <= votes_per_user_le

\* an auto_close_at that carries an offset (aware) is compared with
\* datetime.now(timezone.utc), one that carries none with datetime.now(),
\* the server's local wall clock
validate_auto_close_at(auto_close_at, aware, utcoffset) ==
    \/ auto_close_at = None
    \/ LET now_ == IF aware THEN now ELSE now + utcoffset
       IN  /\ ~ (auto_close_at <= now_)
           /\ ~ (auto_close_at > now_ + ThirtyDays)

\* the body is validated, then the row is inserted and committed; the
\* column takes the value as given and the sweep reads it as UTC
create_vote_session(w, uid, votes_per_user, auto_close_at, aware) ==
    /\ txn[w].op = "idle"
    /\ Len(vote_session) + Cardinality({v \in Workers : txn[v].op = "create"})
            < MaxSessions
    /\ \E utcoffset \in LocalOffsets :
        IF \/ ~ votes_per_user_valid(votes_per_user)
           \/ ~ validate_auto_close_at(auto_close_at, aware, utcoffset)
        THEN /\ last' = Response("create", 0, Unprocessable, 0, "", None)
             /\ UNCHANGED <<db, txn, now>>
        ELSE /\ txn' = [txn EXCEPT ![w] =
                 [Idle EXCEPT !.op = "create", !.user_id = uid,
                              !.votes_per_user = votes_per_user,
                              !.auto_close_at = auto_close_at]]
             /\ UNCHANGED <<db, last, now>>

create_vote_session_commit(w) ==
    /\ txn[w].op = "create"
    /\ vote_session' = Append(vote_session,
            [title |-> "t", description |-> "d", status |-> DRAFT, created_by_user_id |-> txn[w].user_id,
             votes_per_user |-> txn[w].votes_per_user,
             auto_close_at |-> txn[w].auto_close_at,
             started_at |-> None, ended_at |-> None])
    /\ last' = Response("create", Len(vote_session) + 1, Ok, 0, DRAFT, None)
    /\ txn' = [txn EXCEPT ![w] = Idle]
    /\ UNCHANGED <<restaurant, vote, vote_session_restaurants, vote_participation, now>>

\* ---------------------------------------------------------------- cast
\* the status read without sweeping first
status_without_sweep(sid) == vote_session[sid].status

\* the status the request sees after its own sweep
status_after_sweep(sid) ==
    IF sid \in sessions_to_close(now) THEN CLOSED ELSE vote_session[sid].status

\* the checks with the budget comparison off by one
vote_check_budget_off_by_one(sid, rid, uid) ==
    IF sid \notin DOMAIN vote_session THEN NotFound
    ELSE IF status_after_sweep(sid) # ACTIVE THEN InvalidState
    ELSE IF rid \notin session_restaurants(sid) THEN NotMember
    ELSE IF user_vote_count(sid, uid) > vote_session[sid].votes_per_user
    THEN BudgetExhausted
    ELSE Ok

\* the checks refusing only closed sessions
vote_check_draft_accepted(sid, rid, uid) ==
    IF sid \notin DOMAIN vote_session THEN NotFound
    ELSE IF status_after_sweep(sid) = CLOSED THEN InvalidState
    ELSE IF rid \notin session_restaurants(sid) THEN NotMember
    ELSE IF user_vote_count(sid, uid) >= vote_session[sid].votes_per_user
    THEN BudgetExhausted
    ELSE Ok

\* the checks with membership and budget looked at before the status
vote_check_status_last(sid, rid, uid) ==
    IF sid \notin DOMAIN vote_session THEN NotFound
    ELSE IF rid \notin session_restaurants(sid) THEN NotMember
    ELSE IF user_vote_count(sid, uid) >= vote_session[sid].votes_per_user
    THEN BudgetExhausted
    ELSE IF status_after_sweep(sid) # ACTIVE THEN InvalidState
    ELSE Ok

vote_check(sid, rid, uid) ==
    IF sid \notin DOMAIN vote_session THEN NotFound
    ELSE IF status_after_sweep(sid) # ACTIVE THEN InvalidState
    ELSE IF rid \notin session_restaurants(sid) THEN NotMember
    ELSE IF user_vote_count(sid, uid) >= vote_session[sid].votes_per_user
    THEN BudgetExhausted
    ELSE Ok

\* the sequence counted from zero, and vote_sequence = user_vote_count + 1
next_vote_sequence_from_zero(sid, uid) == user_vote_count(sid, uid)

next_vote_sequence(sid, uid) == user_vote_count(sid, uid) + 1

\* reads and checks of vote_in_session; a failed check raises and the
\* endpoint answers 400 without commit, so the sweep's UPDATEs are rolled back
vote_in_session(w, sid, rid, uid) ==
    /\ txn[w].op = "idle"
    /\ IF vote_check(sid, rid, uid) # Ok
       THEN /\ last' = Response("vote", sid, vote_check(sid, rid, uid), 0, "", None)
            /\ UNCHANGED <<db, txn, now>>
       ELSE /\ txn' = [txn EXCEPT ![w] =
                [Idle EXCEPT !.op = "vote", !.sid = sid, !.user_id = uid, !.rids = {rid},
                             !.seq = next_vote_sequence(sid, uid),
                             !.weight = Weight(next_vote_sequence(sid, uid)),
                             !.at = now, !.closing = sessions_to_close(now)]]
            /\ UNCHANGED <<db, last, now>>

\* the error of the sweep swallowed: the checks go on with the rows as
\* persisted
vote_check_sweep_error_swallowed(sid, rid, uid) ==
    IF sid \notin DOMAIN vote_session THEN NotFound
    ELSE IF status_without_sweep(sid) # ACTIVE THEN InvalidState
    ELSE IF rid \notin session_restaurants(sid) THEN NotMember
    ELSE IF user_vote_count(sid, uid) >= vote_session[sid].votes_per_user
    THEN BudgetExhausted
    ELSE Ok

\* the outcome of the checks when check_and_auto_close_sessions raises:
\* vote_in_session calls it outside any try and the endpoint catches
\* ValueError only, so the error is the outcome of the request
vote_check_sweep_error(sid, rid, uid) == StorageError

\* a cast during which the storage fails inside the sweep; the session of
\* the request is closed without commit
vote_in_session_sweep_error(w, sid, rid, uid) ==
    /\ txn[w].op = "idle"
    /\ IF vote_check_sweep_error(sid, rid, uid) # Ok
       THEN /\ last' = Response("vote", sid, vote_check_sweep_error(sid, rid, uid),
                                0, "", None)
            /\ UNCHANGED <<db, txn, now>>
       ELSE /\ txn' = [txn EXCEPT ![w] =
                [Idle EXCEPT !.op = "vote", !.sid = sid, !.user_id = uid, !.rids = {rid},
                             !.seq = next_vote_sequence(sid, uid),
                             !.weight = Weight(next_vote_sequence(sid, uid)),
                             !.at = now]]
            /\ UNCHANGED <<db, last, now>>

\* the user's earlier rows of the session are replaced by the new one
db_replace_user_votes(db_obj) ==
    {v \in vote_participation :
        ~ (v.vote_session_id = db_obj.vote_session_id /\ v.user_id = db_obj.user_id)}
    \cup {db_obj}

\* db.add(db_obj) of a new VoteParticipation: one INSERT
db_add(db_obj) == vote_participation \cup {db_obj}

\* db.flush() of the INSERT, then db.commit(); IntegrityError rolls back
vote_in_session_commit(w) ==
    /\ txn[w].op = "vote"
    /\ txn' = [txn EXCEPT ![w] = Idle]
    /\ IF unique_user_vote_sequence_per_session(txn[w].sid, txn[w].user_id, txn[w].seq)
       THEN /\ vote_participation' = db_add(
                 [vote_session_id |-> txn[w].sid, user_id |-> txn[w].user_id,
                  restaurant_id |-> CHOOSE r \in txn[w].rids : TRUE,
                  vote_sequence |-> txn[w].seq, weight |-> txn[w].weight,
                  voted_at |-> now])
            /\ vote_session' = closed_rows(vote_session, txn[w].closing, txn[w].at)
            /\ last' = Response("vote", txn[w].sid, Ok, txn[w].seq, "", None)
            /\ UNCHANGED <<restaurant, vote, vote_session_restaurants, now>>
       ELSE /\ last' = Response("vote", txn[w].sid, ConstraintViolation,
                                0, "", None)
            /\ UNCHANGED <<db, now>>

\* ---------------------------------------------------------------- membership
Range(ids) == {ids[i] : i \in DOMAIN ids}

\* db.query(Restaurant).filter(Restaurant.id.in_(restaurant_ids)).all()
restaurants_in(ids) == {r \in Restaurants : r \in Range(ids)}

\* the checks of add without the comparison of the lengths
add_check_without_lengths(sid, ids, uid) ==
    IF sid \notin DOMAIN vote_session THEN NotFound
    ELSE IF vote_session[sid].created_by_user_id # uid THEN Forbidden
    ELSE IF vote_session[sid].status # DRAFT THEN InvalidState
    ELSE Ok

add_check(sid, ids, uid) ==
    IF sid \notin DOMAIN vote_session THEN NotFound
    ELSE IF vote_session[sid].created_by_user_id # uid THEN Forbidden
    ELSE IF vote_session[sid].status # DRAFT THEN InvalidState
    ELSE IF Cardinality(restaurants_in(ids)) # Len(ids) THEN NotFound
    ELSE Ok

\* reads and checks of add_restaurants_to_session; the rows to INSERT are
\* the resolved restaurants that the loaded collection does not hold yet
add_restaurants_to_session(w, sid, ids, uid) ==
    /\ txn[w].op = "idle"
    /\ IF add_check(sid, ids, uid) # Ok
       THEN /\ last' = Response("add", sid, add_check(sid, ids, uid), 0, "", None)
            /\ UNCHANGED <<db, txn, now>>
       ELSE /\ txn' = [txn EXCEPT ![w] =
                [Idle EXCEPT !.op = "add", !.sid = sid, !.user_id = uid,
                             !.rids = restaurants_in(ids) \ session_restaurants(sid)]]
            /\ UNCHANGED <<db, last, now>>

\* flush of the junction INSERTs and commit; a row another request has
\* committed meanwhile violates the primary key and the request is rolled back
add_restaurants_commit(w) ==
    /\ txn[w].op = "add"
    /\ txn' = [txn EXCEPT ![w] = Idle]
    /\ IF \E r \in txn[w].rids : <<txn[w].sid, r>> \in vote_session_restaurants
       THEN /\ last' = Response("add", txn[w].sid, IntegrityError, 0, "", None)
            /\ UNCHANGED <<db, now>>
       ELSE /\ vote_session_restaurants' =
                vote_session_restaurants \cup {<<txn[w].sid, r>> : r \in txn[w].rids}
            /\ last' = Response("add", txn[w].sid, Ok, 0, "", None)
            /\ UNCHANGED <<restaurant, vote, vote_session, vote_participation, now>>

\* the checks of remove with the status looked at before the creator
remove_check_status_first(sid, uid) ==
    IF sid \notin DOMAIN vote_session THEN NotFound
    ELSE IF vote_session[sid].status # DRAFT THEN InvalidState
    ELSE IF vote_session[sid].created_by_user_id # uid THEN Forbidden
    ELSE Ok

remove_check(sid, uid) ==
    IF sid \notin DOMAIN vote_session THEN NotFound
    ELSE IF vote_session[sid].created_by_user_id # uid THEN Forbidden
    ELSE IF vote_session[sid].status # DRAFT THEN InvalidState
    ELSE Ok

\* reads and checks of remove_restaurants_from_session; the rows to DELETE
\* are the loaded members named in restaurant_ids
remove_restaurants_from_session(w, sid, ids, uid) ==
    /\ txn[w].op = "idle"
    /\ IF remove_check(sid, uid) # Ok
       THEN /\ last' = Response("remove", sid, remove_check(sid, uid), 0, "", None)
            /\ UNCHANGED <<db, txn, now>>
       ELSE /\ txn' = [txn EXCEPT ![w] =
                [Idle EXCEPT !.op = "remove", !.sid = sid, !.user_id = uid,
                             !.rids = session_restaurants(sid) \cap Range(ids)]]
            /\ UNCHANGED <<db, last, now>>

remove_restaurants_commit(w) ==
    /\ txn[w].op = "remove"
    /\ txn' = [txn EXCEPT ![w] = Idle]
    /\ vote_session_restaurants' =
            vote_session_restaurants \ {<<txn[w].sid, r>> : r \in txn[w].rids}
    /\ last' = Response("remove", txn[w].sid, Ok, 0, "", None)
    /\ UNCHANGED <<restaurant, vote, vote_session, vote_participation, now>>

\* ---------------------------------------------------------------- start, end
\* the checks of start without the look at the restaurants
start_check_without_restaurants(sid, uid) ==
    IF sid \notin DOMAIN vote_session THEN NotFound
    ELSE IF vote_session[sid].created_by_user_id # uid THEN Forbidden
    ELSE IF vote_session[sid].status # DRAFT THEN InvalidState
    ELSE Ok

start_check(sid, uid) ==
    IF sid \notin DOMAIN vote_session THEN NotFound
    ELSE IF vote_session[sid].created_by_user_id # uid THEN Forbidden
    ELSE IF vote_session[sid].status # DRAFT THEN InvalidState
    ELSE IF session_restaurants(sid) = {} THEN InvalidState
    ELSE Ok

start_session(w, sid, uid) ==
    /\ txn[w].op = "idle"
    /\ IF start_check(sid, uid) # Ok
       THEN /\ last' = Response("start", sid, start_check(sid, uid), 0, "", None)
            /\ UNCHANGED <<db, txn, now>>
       ELSE /\ txn' = [txn EXCEPT ![w] =
                [Idle EXCEPT !.op = "start", !.sid = sid, !.user_id = uid, !.at = now]]
            /\ UNCHANGED <<db, last, now>>

\* UPDATE vote_session SET status, started_at WHERE id = sid; commit
start_session_commit(w) ==
    /\ txn[w].op = "start"
    /\ txn' = [txn EXCEPT ![w] = Idle]
    /\ vote_session' = [vote_session EXCEPT ![txn[w].sid].status = ACTIVE,
                                            ![txn[w].sid].started_at = txn[w].at]
    /\ last' = Response("start", txn[w].sid, Ok, 0, ACTIVE, None)
    /\ UNCHANGED <<restaurant, vote, vote_session_restaurants, vote_participation, now>>

\* the checks of end refusing only draft sessions
end_check_closed_accepted(sid, uid) ==
    IF sid \notin DOMAIN vote_session THEN NotFound
    ELSE IF vote_session[sid].created_by_user_id # uid THEN Forbidden
    ELSE IF vote_session[sid].status = DRAFT THEN InvalidState
    ELSE Ok

end_check(sid, uid) ==
    IF sid \notin DOMAIN vote_session THEN NotFound
    ELSE IF vote_session[sid].created_by_user_id # uid THEN Forbidden
    ELSE IF vote_session[sid].status # ACTIVE THEN InvalidState
    ELSE Ok

end_session(w, sid, uid) ==
    /\ txn[w].op = "idle"
    /\ IF end_check(sid, uid) # Ok
       THEN /\ last' = Response("end", sid, end_check(sid, uid), 0, "", None)
            /\ UNCHANGED <<db, txn, now>>
       ELSE /\ txn' = [txn EXCEPT ![w] =
                [Idle EXCEPT !.op = "end", !.sid = sid, !.user_id = uid, !.at = now]]
            /\ UNCHANGED <<db, last, now>>

\* UPDATE vote_session SET status, ended_at WHERE id = sid; commit
end_session_commit(w) ==
    /\ txn[w].op = "end"
    /\ txn' = [txn EXCEPT ![w] = Idle]
    /\ vote_session' = [vote_session EXCEPT ![txn[w].sid].status = CLOSED,
                                            ![txn[w].sid].ended_at = txn[w].at]
    /\ last' = Response("end", txn[w].sid, Ok, 0, CLOSED, txn[w].at)
    /\ UNCHANGED <<restaurant, vote, vote_session_restaurants, vote_participation, now>>

\* ---------------------------------------------------------------- sweep, read
\* check_and_auto_close_sessions called on its own and committed by the caller
check_and_auto_close_sessions(w) ==
    /\ txn[w].op = "idle"
    /\ IF sessions_to_close(now) = {}
       THEN /\ last' = Response("sweep", 0, Ok, 0, "", None)
            /\ UNCHANGED <<db, txn, now>>
       ELSE /\ txn' = [txn EXCEPT ![w] =
                [Idle EXCEPT !.op = "sweep", !.at = now, !.closing = sessions_to_close(now)]]
            /\ UNCHANGED <<db, last, now>>

check_and_auto_close_commit(w) ==
    /\ txn[w].op = "sweep"
    /\ txn' = [txn EXCEPT ![w] = Idle]
    /\ vote_session' = closed_rows(vote_session, txn[w].closing, txn[w].at)
    /\ last' = Response("sweep", 0, Ok, Cardinality(txn[w].closing), "", None)
    /\ UNCHANGED <<restaurant, vote, vote_session_restaurants, vote_participation, now>>

\* GET /vote-sessions/{session_id}: get_session_with_results, no sweep.
\* The session query and the results query; each statement of the
\* transaction sees the rows committed when it starts
read_vote_session(w, sid) ==
    /\ txn[w].op = "idle"
    /\ IF sid \notin DOMAIN vote_session
       THEN /\ last' = VoteSessionWithResults(sid, NotFound, "", None, <<>>, 0)
            /\ UNCHANGED <<db, txn, now>>
       ELSE /\ \E q \in results_query(sid) :
                txn' = [txn EXCEPT ![w] =
                    [Idle EXCEPT !.op = "read", !.sid = sid,
                                 !.status = vote_session[sid].status,
                                 !.ended_at = vote_session[sid].ended_at,
                                 !.results = q]]
            /\ UNCHANGED <<db, last, now>>

\* the total_votes query of get_session_with_results, and the response
get_session_with_results(w) ==
    /\ txn[w].op = "read"
    /\ txn' = [txn EXCEPT ![w] = Idle]
    /\ last' = VoteSessionWithResults(txn[w].sid, Ok, txn[w].status, txn[w].ended_at,
                                      txn[w].results, total_votes_query(txn[w].sid))
    /\ UNCHANGED <<db, now>>

\* ---------------------------------------------------------------- update
\* the bodies a PUT /vote-sessions/{session_id} may carry
UpdateBodies ==
    {[title |-> "u"], [description |-> "e"],
     [title |-> "u", votes_per_user |-> MaxVotesPerUser + 1],
     [description |-> "e", status |-> CLOSED, created_by_user_id |-> MaxUsers]}

\* a schema that lets every key of the body through
VoteSessionUpdate_extra_allowed(body) == body

\* the model pydantic builds from the body: title and description, every
\* other key is ignored
VoteSessionUpdate(body) ==
    [f \in DOMAIN body \cap {"title", "description"} |-> body[f]]

\* the generic update: every column that obj_in sets is assigned
update(db_obj, obj_in) ==
    [f \in DOMAIN db_obj |-> IF f \in DOMAIN obj_in THEN obj_in[f] ELSE db_obj[f]]

\* the read and the checks of update_vote_session
update_vote_session(w, sid, body, uid) ==
    /\ txn[w].op = "idle"
    /\ IF sid \notin DOMAIN vote_session
       THEN /\ last' = Response("update", sid, NotFound, 0, "", None)
            /\ UNCHANGED <<db, txn, now>>
       ELSE IF vote_session[sid].created_by_user_id # uid
       THEN /\ last' = Response("update", sid, Forbidden, 0, "", None)
            /\ UNCHANGED <<db, txn, now>>
       ELSE /\ txn' = [txn EXCEPT ![w] =
                [Idle EXCEPT !.op = "update", !.sid = sid, !.user_id = uid,
                             !.results = VoteSessionUpdate(body)]]
            /\ UNCHANGED <<db, last, now>>

\* the UPDATE of the columns assigned, by primary key, and the commit
update_vote_session_commit(w) ==
    /\ txn[w].op = "update"
    /\ vote_session' = [vote_session EXCEPT
            ![txn[w].sid] = update(vote_session[txn[w].sid], txn[w].results)]
    /\ last' = Response("update", txn[w].sid, Ok, 0,
                        vote_session'[txn[w].sid].status,
                        vote_session'[txn[w].sid].ended_at)
    /\ txn' = [txn EXCEPT ![w] = Idle]
    /\ UNCHANGED <<restaurant, vote, vote_session_restaurants, vote_participation, now>>

\* ---------------------------------------------------------------- listing
\* the rows with status ACTIVE as committed; no sweep precedes the query
active_sessions ==
    {sid \in DOMAIN vote_session : vote_session[sid].status = ACTIVE}

\* GET /vote-sessions/active: offset(skip).limit(limit) without ORDER BY
\* returns any limit of the rows that remain after skipping skip of them
get_active_sessions(skip, limit) ==
    /\ \E page \in SUBSET active_sessions :
        /\ LET rest == IF Cardinality(active_sessions) > skip
                       THEN Cardinality(active_sessions) - skip ELSE 0
           IN  Cardinality(page) = IF rest < limit THEN rest ELSE limit
        /\ last' = [op |-> "active", sid |-> 0, res |-> Ok, seq |-> 0,
                    status |-> "", ended_at |-> None, sessions |-> page]
    /\ UNCHANGED <<db, txn, now>>

\* ---------------------------------------------------------------- catalog
\* the body of a served DELETE /restaurants/{id} or POST
\* /restaurants/{id}/reactivate: the schema reads is_active from the
\* attribute of the returned object
RestaurantResponse(op, id, is_active) ==
    [op |-> op, sid |-> 0, res |-> Ok, seq |-> 0, status |-> "",
     ended_at |-> None, id |-> id, is_active |-> is_active]

\* the restaurant is joined to a session with status ACTIVE
is_in_active_sessions(restaurant_id) ==
    \E sid \in DOMAIN vote_session :
        /\ vote_session[sid].status = ACTIVE
        /\ <<sid, restaurant_id>> \in vote_session_restaurants

\* the row is deleted instead
delete_row(id, value) == [r \in DOMAIN restaurant \ {id} |-> restaurant[r]]

\* restaurant.is_active = value; db.add; db.flush; db.commit: the Restaurant
\* class maps id, name, description, address, created_at and updated_at and
\* no is_active, so the assignment sets a plain attribute of the object, the
\* unit of work finds no change and no UPDATE reaches the table
flush_is_active(id, value) == restaurant

soft_delete(id) ==
    /\ IF is_in_active_sessions(id)
       THEN /\ last' = Response("delete", 0, InvalidState, 0, "", None)
            /\ UNCHANGED restaurant
       ELSE IF id \notin DOMAIN restaurant
       THEN /\ last' = Response("delete", 0, NotFound, 0, "", None)
            /\ UNCHANGED restaurant
       ELSE /\ restaurant' = flush_is_active(id, FALSE)
            /\ last' = RestaurantResponse("delete", id, FALSE)
    /\ UNCHANGED <<vote, vote_session, vote_session_restaurants, vote_participation, txn, now>>

reactivate(id) ==
    /\ IF id \notin DOMAIN restaurant
       THEN /\ last' = Response("reactivate", 0, NotFound, 0, "", None)
            /\ UNCHANGED restaurant
       ELSE /\ restaurant' = flush_is_active(id, TRUE)
            /\ last' = RestaurantResponse("reactivate", id, TRUE)
    /\ UNCHANGED <<vote, vote_session, vote_session_restaurants, vote_participation, txn, now>>

\* ---------------------------------------------------------------- daily vote
\* the fields class Settings declares; extra="ignore" lets the environment
\* add none
Settings ==
    {"PROJECT_NAME", "VERSION", "API_V1_STR", "ENVIRONMENT", "DEBUG",
     "ENABLE_DOCS", "BACKEND_CORS_ORIGINS", "POSTGRES_SERVER", "POSTGRES_PORT",
     "POSTGRES_USER", "POSTGRES_PASSWORD", "POSTGRES_DB", "SECRET_KEY",
     "ALGORITHM", "ACCESS_TOKEN_EXPIRE_MINUTES", "REQUESTS_PER_MINUTE",
     "LOG_LEVEL", "LOG_FILE", "HEALTH_CHECK_TIMEOUT"}

\* date.today()
get_current_date == now \div TicksPerDay

\* db.query(Vote).filter(user_id, vote_date == today).first(): the id of a
\* row of the user for today, 0 if there is none
existing_vote(user_id, today) ==
    LET ids == {i \in DOMAIN vote :
                    vote[i].user_id = user_id /\ vote[i].vote_date = today}
    IN  IF ids = {} THEN 0 ELSE CHOOSE i \in ids : \A j \in ids : i <= j

\* the checks and the read of create_vote; before_deadline and weekday are
\* what datetime.now() gives at the time of the call
create_vote(w, user_id, restaurant_id, before_deadline, weekday) ==
    /\ txn[w].op = "idle"
    /\ Len(vote) + Cardinality({v \in Workers : txn[v].op = "daily"}) < MaxDailyVotes
    /\ IF "VOTING_DEADLINE_HOUR" \notin Settings
       THEN /\ last' = Response("daily", 0, AttributeError, 0, "", None)
            /\ UNCHANGED <<db, txn, now>>
       ELSE IF ~ before_deadline \/ ~ weekday
       THEN /\ last' = Response("daily", 0, InvalidState, 0, "", None)
            /\ UNCHANGED <<db, txn, now>>
       ELSE /\ txn' = [txn EXCEPT ![w] =
                [Idle EXCEPT !.op = "daily", !.user_id = user_id,
                             !.rids = {restaurant_id},
                             !.sid = existing_vote(user_id, get_current_date),
                             !.at = get_current_date]]
            /\ UNCHANGED <<db, last, now>>

\* the flush of create_vote and the commit of its caller: an UPDATE of the
\* row read, or an INSERT
create_vote_commit(w) ==
    /\ txn[w].op = "daily"
    /\ vote' = IF txn[w].sid # 0
               THEN [vote EXCEPT ![txn[w].sid].restaurant_id =
                                    CHOOSE r \in txn[w].rids : TRUE]
               ELSE Append(vote, [user_id |-> txn[w].user_id,
                                  restaurant_id |-> CHOOSE r \in txn[w].rids : TRUE,
                                  vote_date |-> txn[w].at, weight |-> 100])
    /\ last' = Response("daily", 0, Ok, 0, "", None)
    /\ txn' = [txn EXCEPT ![w] = Idle]
    /\ UNCHANGED <<restaurant, vote_session, vote_session_restaurants,
                   vote_participation, now>>

\* ---------------------------------------------------------------- spec
NoTxn == [w \in Workers |-> Idle]

\* the requests of the session lifecycle
Lifecycle ==
    \/ \E w \in Workers, u \in Users, n \in 0..MaxVotesPerUser,
          a \in {None, FarFuture} \cup Times, aware \in BOOLEAN :
        create_vote_session(w, u, n, a, aware)
    \/ \E w \in Workers : create_vote_session_commit(w)
    \/ \E w \in Workers, s \in SessionIds, ids \in IdLists, u \in Users :
        add_restaurants_to_session(w, s, ids, u)
    \/ \E w \in Workers : add_restaurants_commit(w)
    \/ \E w \in Workers, s \in SessionIds, ids \in IdLists, u \in Users :
        remove_restaurants_from_session(w, s, ids, u)
    \/ \E w \in Workers : remove_restaurants_commit(w)
    \/ \E w \in Workers, s \in SessionIds, u \in Users : start_session(w, s, u)
    \/ \E w \in Workers : start_session_commit(w)
    \/ \E w \in Workers, s \in SessionIds, u \in Users : end_session(w, s, u)
    \/ \E w \in Workers : end_session_commit(w)

\* the requests of the vote ledger
Ledger ==
    \/ \E w \in Workers, s \in SessionIds, r \in RestaurantIds, u \in Users :
        vote_in_session(w, s, r, u)
    \/ \E w \in Workers : vote_in_session_commit(w)

\* the results read
Results ==
    \/ \E w \in Workers, s \in SessionIds : read_vote_session(w, s)
    \/ \E w \in Workers : get_session_with_results(w)

Sweep ==
    \/ \E w \in Workers : check_and_auto_close_sessions(w)
    \/ \E w \in Workers : check_and_auto_close_commit(w)

\* an empty database
Init ==
    /\ now = 0
    /\ restaurant = restaurant_rows
    /\ vote = <<>>
    /\ vote_session = <<>>
    /\ vote_session_restaurants = {}
    /\ vote_participation = {}
    /\ txn = NoTxn
    /\ last = NoResponse

Next ==
    \/ Tick
    \/ Lifecycle
    \/ Sweep

Spec == Init /\ [][Next]_vars

\* a database with one started session and no votes yet
InitLedger ==
    /\ restaurant = restaurant_rows
    /\ vote = <<>>
    /\ now = 0
    /\ \E n \in 1..MaxVotesPerUser, m \in (SUBSET Restaurants) \ {{}} :
        /\ vote_session = <<[title |-> "t", description |-> "d", status |-> ACTIVE, created_by_user_id |-> 1,
                             votes_per_user |-> n, auto_close_at |-> None,
                             started_at |-> 0, ended_at |-> None]>>
        /\ vote_session_restaurants = {<<1, r>> : r \in m}
    /\ vote_participation = {}
    /\ txn = NoTxn
    /\ last = NoResponse

NextLedger ==
    \/ Ledger
    \/ \E w \in Workers, s \in SessionIds, u \in Users : end_session(w, s, u)
    \/ \E w \in Workers : end_session_commit(w)

SpecLedger == InitLedger /\ [][NextLedger]_vars

\* a database with one draft session, its restaurants chosen, and no votes yet
InitDraft ==
    /\ restaurant = restaurant_rows
    /\ vote = <<>>
    /\ now = 0
    /\ \E a \in {None} \cup (Times \ {0}), m \in SUBSET Restaurants :
        /\ vote_session = <<[title |-> "t", description |-> "d", status |-> DRAFT, created_by_user_id |-> 1,
                             votes_per_user |-> 1, auto_close_at |-> a,
                             started_at |-> None, ended_at |-> None]>>
        /\ vote_session_restaurants = {<<1, r>> : r \in m}
    /\ vote_participation = {}
    /\ txn = NoTxn
    /\ last = NoResponse

NextDraft ==
    \/ Tick
    \/ \E w \in Workers, s \in SessionIds, r \in RestaurantIds, u \in Users :
        remove_restaurants_from_session(w, s, <<r>>, u)
    \/ \E w \in Workers : remove_restaurants_commit(w)
    \/ \E w \in Workers, s \in SessionIds, u \in Users : start_session(w, s, u)
    \/ \E w \in Workers : start_session_commit(w)
    \/ \E w \in Workers, s \in SessionIds, u \in Users : end_session(w, s, u)
    \/ \E w \in Workers : end_session_commit(w)
    \/ Ledger

SpecDraft == InitDraft /\ [][NextDraft]_vars

\* the draft session is started, voted in and read while the clock runs
NextExpiry ==
    \/ Tick
    \/ \E w \in Workers, s \in SessionIds, u \in Users : start_session(w, s, u)
    \/ \E w \in Workers : start_session_commit(w)
    \/ Ledger
    \/ Results

SpecExpiry == InitDraft /\ [][NextExpiry]_vars

\* the draft session goes through its lifecycle, one restaurant added or
\* removed at a time, and is swept while the clock runs
NextAccess ==
    \/ Tick
    \/ \E w \in Workers, s \in SessionIds, r \in RestaurantIds, u \in Users :
        add_restaurants_to_session(w, s, <<r>>, u)
    \/ \E w \in Workers : add_restaurants_commit(w)
    \/ \E w \in Workers, s \in SessionIds, r \in RestaurantIds, u \in Users :
        remove_restaurants_from_session(w, s, <<r>>, u)
    \/ \E w \in Workers : remove_restaurants_commit(w)
    \/ \E w \in Workers, s \in SessionIds, u \in Users : start_session(w, s, u)
    \/ \E w \in Workers : start_session_commit(w)
    \/ \E w \in Workers, s \in SessionIds, u \in Users : end_session(w, s, u)
    \/ \E w \in Workers : end_session_commit(w)
    \/ Sweep

SpecAccess == InitDraft /\ [][NextAccess]_vars

\* the restaurants of the draft session are edited with whole id lists while
\* the session is started
NextMembership ==
    \/ \E w \in Workers, s \in SessionIds, ids \in IdLists, u \in Users :
        add_restaurants_to_session(w, s, ids, u)
    \/ \E w \in Workers : add_restaurants_commit(w)
    \/ \E w \in Workers, s \in SessionIds, ids \in IdLists, u \in Users :
        remove_restaurants_from_session(w, s, ids, u)
    \/ \E w \in Workers : remove_restaurants_commit(w)
    \/ \E w \in Workers, s \in SessionIds, u \in Users : start_session(w, s, u)
    \/ \E w \in Workers : start_session_commit(w)

SpecMembership == InitDraft /\ [][NextMembership]_vars

\* every user casts through a worker of their own, so that the casts in
\* flight at any time are those of different users
NextIndependent ==
    \/ \E u \in Users \cap Workers, s \in SessionIds, r \in RestaurantIds :
        vote_in_session(u, s, r, u)
    \/ \E w \in Workers : vote_in_session_commit(w)

SpecIndependent == InitLedger /\ [][NextIndependent]_vars

\* the restaurants are soft-deleted and reactivated while the draft session
\* is started, voted in by its creator and ended
NextCatalog ==
    \/ \E w \in Workers, s \in SessionIds, u \in Users : start_session(w, s, u)
    \/ \E w \in Workers : start_session_commit(w)
    \/ \E w \in Workers, s \in SessionIds, r \in Restaurants :
        vote_in_session(w, s, r, 1)
    \/ \E w \in Workers : vote_in_session_commit(w)
    \/ \E w \in Workers, s \in SessionIds, u \in Users : end_session(w, s, u)
    \/ \E w \in Workers : end_session_commit(w)
    \/ \E r \in RestaurantIds : soft_delete(r)
    \/ \E r \in RestaurantIds : reactivate(r)

SpecCatalog == InitDraft /\ [][NextCatalog]_vars

\* the draft session is started and voted in while the clock runs and the
\* storage may fail inside the sweep of a cast
NextFault ==
    \/ Tick
    \/ \E w \in Workers, s \in SessionIds, u \in Users : start_session(w, s, u)
    \/ \E w \in Workers : start_session_commit(w)
    \/ Ledger
    \/ \E w \in Workers, s \in SessionIds, r \in RestaurantIds, u \in Users :
        vote_in_session_sweep_error(w, s, r, u)

SpecFault == InitDraft /\ [][NextFault]_vars

\* a database with one started session over all the restaurants, no votes yet
InitRetry ==
    /\ restaurant = restaurant_rows
    /\ vote = <<>>
    /\ now = 0
    /\ \E n \in 1..MaxVotesPerUser :
        vote_session = <<[title |-> "t", description |-> "d", status |-> ACTIVE, created_by_user_id |-> 1,
                          votes_per_user |-> n, auto_close_at |-> None,
                          started_at |-> 0, ended_at |-> None]>>
    /\ vote_session_restaurants = {<<1, r>> : r \in Restaurants}
    /\ vote_participation = {}
    /\ txn = NoTxn
    /\ last = NoResponse

\* the caller on worker 1 wants one vote of user 1 for restaurant 1 recorded
\* and casts again, re-reading the count, as long as it is not
caster_cast ==
    /\ ~ \E v \in vote_participation : v.restaurant_id = 1
    /\ vote_in_session(1, 1, 1, 1)

\* the other workers cast votes of the same user for restaurant 2, and the
\* creator may end the session
NextRetry ==
    \/ caster_cast
    \/ vote_in_session_commit(1)
    \/ \E w \in Workers \ {1} : vote_in_session(w, 1, 2, 1)
    \/ \E w \in Workers \ {1} : vote_in_session_commit(w)
    \/ \E w \in Workers \ {1} : end_session(w, 1, 1)
    \/ \E w \in Workers \ {1} : end_session_commit(w)

\* daily votes are cast beside the votes of the session; create_vote never
\* gets as far as its flush, so no commit of it is a step
NextDaily ==
    \/ NextRetry
    \/ \E w \in Workers, u \in Users, r \in Restaurants,
          before_deadline \in BOOLEAN, weekday \in BOOLEAN :
        create_vote(w, u, r, before_deadline, weekday)

SpecDaily == InitRetry /\ [][NextDaily]_vars

\* the active sessions are listed while sessions are created, filled,
\* started and ended and the clock runs
NextListing ==
    \/ Tick
    \/ \E w \in Workers, u \in Users, a \in {None} \cup Times :
        create_vote_session(w, u, 1, a, TRUE)
    \/ \E w \in Workers : create_vote_session_commit(w)
    \/ \E w \in Workers, s \in SessionIds, u \in Users :
        add_restaurants_to_session(w, s, <<1>>, u)
    \/ \E w \in Workers : add_restaurants_commit(w)
    \/ \E w \in Workers, s \in SessionIds, u \in Users : start_session(w, s, u)
    \/ \E w \in Workers : start_session_commit(w)
    \/ \E w \in Workers, s \in SessionIds, u \in Users : end_session(w, s, u)
    \/ \E w \in Workers : end_session_commit(w)
    \/ \E skip \in 0..1, limit \in 1..MaxSessions : get_active_sessions(skip, limit)

SpecListing == Init /\ [][NextListing]_vars

\* a database with started sessions without deadline and one more started
\* session that has a deadline, all over all the restaurants, no votes yet
InitOthers ==
    /\ restaurant = restaurant_rows
    /\ vote = <<>>
    /\ now = 0
    /\ \E a \in Times \ {0} :
        vote_session =
            [s \in 1..(MaxSessions + 1) |->
                [title |-> "t", description |-> "d", status |-> ACTIVE, created_by_user_id |-> 1, votes_per_user |-> 1,
                 auto_close_at |-> IF s \in SessionIds THEN None ELSE a,
                 started_at |-> 0, ended_at |-> None]]
    /\ vote_session_restaurants = (1..(MaxSessions + 1)) \X Restaurants
    /\ vote_participation = {}
    /\ txn = NoTxn
    /\ last = NoResponse

\* votes are cast in the sessions without deadline while the clock runs
NextOthers ==
    \/ Tick
    \/ Ledger

SpecOthers == InitOthers /\ [][NextOthers]_vars

\* the draft session is updated while it is started, ended and swept
NextUpdate ==
    \/ Tick
    \/ \E w \in Workers, s \in SessionIds, body \in UpdateBodies, u \in Users :
        update_vote_session(w, s, body, u)
    \/ \E w \in Workers : update_vote_session_commit(w)
    \/ \E w \in Workers, s \in SessionIds, u \in Users : start_session(w, s, u)
    \/ \E w \in Workers : start_session_commit(w)
    \/ \E w \in Workers, s \in SessionIds, u \in Users : end_session(w, s, u)
    \/ \E w \in Workers : end_session_commit(w)
    \/ Sweep

SpecUpdate == InitDraft /\ [][NextUpdate]_vars

\* the caller goes on retrying and its requests are served
SpecRetry ==
    /\ InitRetry
    /\ [][NextRetry]_vars
    /\ WF_vars(caster_cast)
    /\ WF_vars(vote_in_session_commit(1))

\* the started session is voted in and read
NextResults ==
    \/ Ledger
    \/ Results

SpecResults == InitLedger /\ [][NextResults]_vars

\* a database with one started session whose budget is longer than the
\* weight schedule, and no votes yet
InitSchedule ==
    /\ restaurant = restaurant_rows
    /\ vote = <<>>
    /\ now = 0
    /\ vote_session = <<[title |-> "t", description |-> "d", status |-> ACTIVE, created_by_user_id |-> 1,
                         votes_per_user |-> MaxVotesPerUser + 1, auto_close_at |-> None,
                         started_at |-> 0, ended_at |-> None]>>
    /\ vote_session_restaurants = {<<1, 1>>}
    /\ vote_participation = {}
    /\ txn = NoTxn
    /\ last = NoResponse

SpecSchedule == InitSchedule /\ [][NextLedger]_vars

\* ================================================================ claims
\* the session is committed as ACTIVE and its auto_close_at has passed
expired(s) ==
    /\ s \in DOMAIN vote_session
    /\ vote_session[s].status = ACTIVE
    /\ vote_session[s].auto_close_at # None
    /\ vote_session[s].auto_close_at <= now

same_slot(v1, v2) ==
    /\ v1.vote_session_id = v2.vote_session_id
    /\ v1.user_id = v2.user_id
    /\ v1.vote_sequence = v2.vote_sequence

\* C1: no step moves a session's status other than DRAFT -> ACTIVE or
\* ACTIVE -> CLOSED, under any interleaving of the requests.
C1_StatusOnlyProgresses ==
    [][\A s \in DOMAIN vote_session :
        \/ vote_session'[s].status = vote_session[s].status
        \/ vote_session[s].status = DRAFT /\ vote_session'[s].status = ACTIVE
        \/ vote_session[s].status = ACTIVE /\ vote_session'[s].status = CLOSED]_vars

\* C2: in every reachable state each user's number of vote_participation rows
\* in a session is at most the session's votes_per_user.
C2_BudgetNeverExceeded ==
    \A s \in DOMAIN vote_session, u \in Users :
        user_vote_count(s, u) <= vote_session[s].votes_per_user

\* the budget of a user is used up while another cast of the same user, which
\* read the count before the last vote was committed, is still in flight
C2_Witness ==
    \E s \in DOMAIN vote_session, u \in Users, w \in Workers :
        /\ vote_session[s].votes_per_user >= 2
        /\ user_vote_count(s, u) = vote_session[s].votes_per_user
        /\ txn[w].op = "vote" /\ txn[w].sid = s /\ txn[w].user_id = u
        /\ txn[w].seq = vote_session[s].votes_per_user

C3_UniqueSlots ==
    \A v1 \in vote_participation, v2 \in vote_participation :
        same_slot(v1, v2) => v1 = v2

\* C3: no two rows share (session, user, sequence), and a cast that commits
\* on a slot already taken fails with ConstraintViolation and adds no row.
C3_OneWinnerPerSlot ==
    /\ []C3_UniqueSlots
    /\ [][\A w \in Workers :
            (/\ vote_in_session_commit(w)
             /\ \E v \in vote_participation :
                    /\ v.vote_session_id = txn[w].sid
                    /\ v.user_id = txn[w].user_id
                    /\ v.vote_sequence = txn[w].seq)
            => (/\ last'.op = "vote"
                /\ last'.res = ConstraintViolation
                /\ vote_participation' = vote_participation)]_vars
    /\ [][\A w \in Workers :
            (/\ vote_in_session_commit(w)
             /\ ~ \E v \in vote_participation :
                    /\ v.vote_session_id = txn[w].sid
                    /\ v.user_id = txn[w].user_id
                    /\ v.vote_sequence = txn[w].seq)
            => (/\ last'.res = Ok
                /\ Cardinality(vote_participation') = Cardinality(vote_participation) + 1)]_vars

\* a racing cast has just lost: the slot of the second vote is taken once
C3_Witness ==
    /\ last.op = "vote" /\ last.res = ConstraintViolation
    /\ \E v \in vote_participation : v.vote_sequence = 2
    /\ C3_UniqueSlots

\* C4: a cast on a session whose status after the sweep is DRAFT or CLOSED
\* fails with InvalidState and leaves the ledger as it was.
C4_InactiveSessionRejectsCast ==
    [][\A s \in DOMAIN vote_session, w \in Workers, r \in RestaurantIds, u \in Users :
        (/\ \/ vote_session[s].status \in {DRAFT, CLOSED}
            \/ expired(s)
         /\ vote_in_session(w, s, r, u))
        => (/\ last'.op = "vote"
            /\ last'.res = InvalidState
            /\ vote_participation' = vote_participation)]_vars

\* a cast on a closed session that holds votes has just been refused
C4_Witness ==
    /\ last.op = "vote" /\ last.res = InvalidState
    /\ last.sid \in DOMAIN vote_session
    /\ vote_session[last.sid].status = CLOSED
    /\ \E v \in vote_participation : v.vote_session_id = last.sid

C5_RejectsExpired ==
    \A s \in DOMAIN vote_session, w \in Workers, r \in RestaurantIds, u \in Users :
        (expired(s) /\ vote_in_session(w, s, r, u))
        => (/\ last'.op = "vote"
            /\ last'.res = InvalidState
            /\ txn' = txn
            /\ vote_participation' = vote_participation)

\* C5 (as amended): a cast that finds the session committed as ACTIVE with
\* auto_close_at <= the time of its sweep fails with InvalidState and
\* persists no row.
C5_ExpiredSessionRejectsCast == [][C5_RejectsExpired]_vars

\* C5 (as claimed): the same, and moreover no row of the session has
\* voted_at >= auto_close_at.
C5_NoVoteAtOrAfterDeadline ==
    [][/\ C5_RejectsExpired
       /\ \A v \in vote_participation' :
            \/ vote_session'[v.vote_session_id].auto_close_at = None
            \/ v.voted_at < vote_session'[v.vote_session_id].auto_close_at]_vars

\* a cast on a session still committed as ACTIVE past its deadline has just
\* been refused
C5_Witness ==
    /\ last.op = "vote" /\ last.res = InvalidState
    /\ expired(last.sid)

\* C6: once a cast on an expired ACTIVE session has been rejected and its
\* request has finished, the committed row is CLOSED with ended_at set, so
\* that every later read reports it closed.
C6_CloseIsDurable ==
    [][\A s \in DOMAIN vote_session, w \in Workers, r \in RestaurantIds, u \in Users :
        (expired(s) /\ vote_in_session(w, s, r, u))
        => (/\ vote_session'[s].status = CLOSED
            /\ vote_session'[s].ended_at # None)]_vars

\* C7: a results read of a session committed as ACTIVE past its deadline
\* reports status CLOSED and ended_at set.
C7_ReadSweepsFirst ==
    [][\A s \in DOMAIN vote_session, w \in Workers :
        (expired(s) /\ read_vote_session(w, s))
        => (txn'[w].status = CLOSED /\ txn'[w].ended_at # None)]_vars

\* C8: a cast for a restaurant outside the membership fails with NotMember
\* and adds no row, and the restaurant of every row is a member of the
\* row's session.
C8_VotesOnlyForMembers ==
    [][/\ \A s \in DOMAIN vote_session, w \in Workers, r \in RestaurantIds, u \in Users :
            (/\ vote_session[s].status = ACTIVE /\ ~ expired(s)
             /\ <<s, r>> \notin vote_session_restaurants
             /\ vote_in_session(w, s, r, u))
            => (last'.res = NotMember /\ vote_participation' = vote_participation)
       /\ \A v \in vote_participation' :
            <<v.vote_session_id, v.restaurant_id>> \in vote_session_restaurants']_vars

\* the weight schedule [1.0, 0.5, 0.25], its last entry repeated
weightSchedule == <<100, 50, 25>>

Min(a, b) == IF a < b THEN a ELSE b

W(s) == weightSchedule[Min(s, Len(weightSchedule))]

\* C9: every row with sequence s has weight W(s), whatever its user,
\* restaurant, session and time.
C9_WeightBySequence ==
    \A v \in vote_participation : v.weight = W(v.vote_sequence)

\* a user has cast a vote beyond the length of the schedule
C9_Witness ==
    \E v \in vote_participation :
        v.vote_sequence > Len(weightSchedule) /\ v.weight = 25

C10_Dense ==
    \A s \in DOMAIN vote_session, u \in Users :
        {v.vote_sequence : v \in user_votes(s, u)} = 1..user_vote_count(s, u)

\* C10: the sequences of a user's rows in a session are exactly 1..k for k
\* rows, and a successful cast returns the user's previous count + 1.
C10_DenseSequences ==
    /\ []C10_Dense
    /\ [][\A w \in Workers :
            (vote_in_session_commit(w) /\ last'.res = Ok)
            => (/\ last'.seq = user_vote_count(txn[w].sid, txn[w].user_id) + 1
                /\ \E v \in vote_participation' \ vote_participation :
                    /\ v.vote_session_id = txn[w].sid
                    /\ v.user_id = txn[w].user_id
                    /\ v.vote_sequence = last'.seq)]_vars

\* a user holds three rows and both users hold some
C10_Witness ==
    /\ last.op = "vote" /\ last.res = Ok /\ last.seq = 3
    /\ \A u \in Users : user_vote_count(last.sid, u) >= 1

creator(s) == vote_session[s].created_by_user_id

\* the request has been refused with res and has changed nothing
refused(op, res) ==
    /\ last'.op = op
    /\ last'.res = res
    /\ UNCHANGED <<db, txn>>

\* C11: a cast for a member restaurant by a user who already holds
\* votes_per_user rows in an ACTIVE session fails with BudgetExhausted and
\* leaves the user's count and the whole ledger unchanged.
C11_BudgetExhaustedRejectsCast ==
    [][\A s \in DOMAIN vote_session, u \in Users, r \in Restaurants, w \in Workers :
        (/\ vote_session[s].status = ACTIVE /\ ~ expired(s)
         /\ <<s, r>> \in vote_session_restaurants
         /\ user_vote_count(s, u) = vote_session[s].votes_per_user
         /\ vote_in_session(w, s, r, u))
        => (/\ refused("vote", BudgetExhausted)
            /\ user_vote_count(s, u)' = user_vote_count(s, u))]_vars

\* a user who holds a budget of several votes has just been refused one more
C11_Witness ==
    /\ last.op = "vote" /\ last.res = BudgetExhausted
    /\ vote_session[last.sid].votes_per_user >= 2
    /\ \E u \in Users :
        user_vote_count(last.sid, u) = vote_session[last.sid].votes_per_user

RECURSIVE sum_weighted_votes(_)
sum_weighted_votes(rows) ==
    IF rows = <<>> THEN 0
    ELSE Head(rows).weighted_votes + sum_weighted_votes(Tail(rows))

\* the sum of the weights of a set of rows, counted tier by tier
tally(votes) ==
    100 * Cardinality({v \in votes : v.vote_sequence = 1})
    + 50 * Cardinality({v \in votes : v.vote_sequence = 2})
    + 25 * Cardinality({v \in votes : v.vote_sequence >= 3})

\* C12: the total_votes of every results read equals the sum of weight over
\* the session's rows and the sum of weighted_votes over the rows of the
\* same response.
C12_TotalVotesIsTheSum ==
    [][\A w \in Workers :
        get_session_with_results(w)
        => (/\ last'.total_votes = tally(session_votes(last'.sid))
            /\ last'.total_votes = sum_weighted_votes(last'.results))]_vars

\* the rows of a results list are those of a function of the ledger
rows_of_ledger(sid, q) ==
    /\ {q[i].restaurant_id : i \in DOMAIN q}
            = {v.restaurant_id : v \in session_votes(sid)}
    /\ \A i \in DOMAIN q, j \in DOMAIN q :
            q[i].restaurant_id = q[j].restaurant_id => i = j
    /\ \A i \in DOMAIN q :
        LET votes == {v \in session_votes(sid) : v.restaurant_id = q[i].restaurant_id}
        IN  /\ q[i].weighted_votes = tally(votes)
            /\ q[i].distinct_voters =
                    Cardinality({u \in Users : \E v \in votes : v.user_id = u})

\* C13: the rows of a results read are a function of the ledger at the time
\* of the read: one row per restaurant with rows, its weighted_votes the sum
\* of their weights, its distinct_voters the number of their distinct users.
C13_ResultsFromLedger ==
    [][\A w \in Workers :
        /\ \A s \in DOMAIN vote_session :
            read_vote_session(w, s) => rows_of_ledger(s, txn'[w].results)
        /\ get_session_with_results(w) => last'.results = txn[w].results]_vars

\* one user has cast R1, R2, R1: R1 1.25 with one voter, R2 0.5 with one
\* voter, total 1.75
C13_Witness ==
    /\ last.op = "read" /\ last.res = Ok
    /\ last.results = <<[restaurant_id |-> 1, restaurant_name |-> "R1",
                         weighted_votes |-> 125, distinct_voters |-> 1],
                        [restaurant_id |-> 2, restaurant_name |-> "R2",
                         weighted_votes |-> 50, distinct_voters |-> 1]>>
    /\ last.total_votes = 175

\* C14: the rows of every results read are in descending order of
\* weighted_votes, then descending distinct_voters, then ascending
\* restaurant id.
C14_ResultsTotallyOrdered ==
    (last.op = "read" /\ last.res = Ok)
    => \A i \in DOMAIN last.results, j \in DOMAIN last.results :
        i < j =>
            \/ last.results[i].weighted_votes > last.results[j].weighted_votes
            \/ /\ last.results[i].weighted_votes = last.results[j].weighted_votes
               /\ last.results[i].distinct_voters > last.results[j].distinct_voters
            \/ /\ last.results[i].weighted_votes = last.results[j].weighted_votes
               /\ last.results[i].distinct_voters = last.results[j].distinct_voters
               /\ last.results[i].restaurant_id < last.results[j].restaurant_id

\* C15: the end of an ACTIVE session by its creator commits CLOSED with
\* ended_at, and its response carries the winner: a restaurant of maximal
\* weighted total and, among those, of maximal distinct voters, or none when
\* the session has no rows.
C15_EndReturnsWinner ==
    [][\A w \in Workers :
        end_session_commit(w)
        => (/\ vote_session'[last'.sid].status = CLOSED
            /\ vote_session'[last'.sid].ended_at # None
            /\ last'.status = CLOSED
            /\ "winning_restaurant" \in DOMAIN last'
            /\ last'.winning_restaurant \in winning_restaurant_query(last'.sid))]_vars

\* C16: on every ledger the winner query and the top row of the results
\* query agree on one restaurant, the lowest id among those that tie on
\* weighted total and distinct voters.
C16_WinnerIsTopRow ==
    \A s \in DOMAIN vote_session :
        \A win \in winning_restaurant_query(s), q \in results_query(s) :
            IF q = <<>> THEN win = None
            ELSE /\ win = q[1].restaurant_id
                 /\ \A i \in DOMAIN q :
                        (/\ q[i].weighted_votes = q[1].weighted_votes
                         /\ q[i].distinct_voters = q[1].distinct_voters)
                        => win <= q[i].restaurant_id

\* C17: start by the creator on a DRAFT session without restaurants fails
\* with InvalidState and leaves it DRAFT with started_at unset; on a DRAFT
\* session with a restaurant it commits ACTIVE and stamps started_at.
C17_StartRequiresRestaurants ==
    [][\A s \in DOMAIN vote_session, w \in Workers :
        /\ (/\ vote_session[s].status = DRAFT
             /\ session_restaurants(s) = {}
             /\ start_session(w, s, creator(s)))
            => (/\ refused("start", InvalidState)
                /\ vote_session'[s].status = DRAFT
                /\ vote_session'[s].started_at = None)
        /\ (/\ vote_session[s].status = DRAFT
             /\ session_restaurants(s) # {}
             /\ start_session(w, s, creator(s)))
            => (txn'[w].op = "start" /\ txn'[w].sid = s /\ txn'[w].at = now)
        /\ (txn[w].op = "start" /\ txn[w].sid = s /\ start_session_commit(w))
            => (/\ last'.op = "start" /\ last'.res = Ok
                /\ vote_session'[s].status = ACTIVE
                /\ vote_session'[s].started_at \in Times)]_vars

\* the start of a draft session without restaurants has just been refused
C17_Witness ==
    /\ last.op = "start" /\ last.res = InvalidState
    /\ vote_session[last.sid].status = DRAFT
    /\ vote_session[last.sid].started_at = None
    /\ session_restaurants(last.sid) = {}

\* C18: start by the creator on an ACTIVE or CLOSED session, and end on a
\* DRAFT or CLOSED one, fail with InvalidState and leave status, started_at
\* and ended_at as they were.
C18_WrongStatusRejected ==
    [][\A s \in DOMAIN vote_session, w \in Workers :
        /\ (/\ vote_session[s].status \in {ACTIVE, CLOSED}
             /\ start_session(w, s, creator(s)))
            => (refused("start", InvalidState) /\ vote_session'[s] = vote_session[s])
        /\ (/\ vote_session[s].status \in {DRAFT, CLOSED}
             /\ end_session(w, s, creator(s)))
            => (refused("end", InvalidState) /\ vote_session'[s] = vote_session[s])]_vars

\* the end of a session closed at or after its deadline has just been refused
C18_Witness ==
    /\ last.op = "end" /\ last.res = InvalidState
    /\ vote_session[last.sid].status = CLOSED
    /\ vote_session[last.sid].auto_close_at # None
    /\ vote_session[last.sid].ended_at # None
    /\ vote_session[last.sid].ended_at >= vote_session[last.sid].auto_close_at

\* C19: start, end, add and remove by a user other than the creator fail with
\* Forbidden whatever the status and change nothing; a step that changes a
\* session or its restaurants commits a request of the creator or a sweep.
C19_CreatorOnly ==
    [][\A s \in DOMAIN vote_session :
        /\ \A u \in Users \ {creator(s)}, w \in Workers :
            /\ start_session(w, s, u) => refused("start", Forbidden)
            /\ end_session(w, s, u) => refused("end", Forbidden)
            /\ \A r \in RestaurantIds :
                /\ add_restaurants_to_session(w, s, <<r>>, u)
                    => refused("add", Forbidden)
                /\ remove_restaurants_from_session(w, s, <<r>>, u)
                    => refused("remove", Forbidden)
        /\ (\/ vote_session'[s] # vote_session[s]
             \/ session_restaurants(s)' # session_restaurants(s))
            => \E w \in Workers :
                /\ txn[w].op # "idle" /\ txn'[w].op = "idle"
                /\ \/ txn[w].sid = s /\ txn[w].user_id = creator(s)
                   \/ txn[w].op = "sweep" /\ s \in txn[w].closing]_vars

\* a user other than the creator has just been refused the removal of a
\* restaurant from a closed session
C19_Witness ==
    /\ last.op = "remove" /\ last.res = Forbidden
    /\ vote_session[last.sid].status = CLOSED
    /\ session_restaurants(last.sid) # {}

\* C20: add and remove by the creator on an ACTIVE or CLOSED session fail
\* with InvalidState, and no step changes the restaurants of a session that
\* has left DRAFT.
C20_MembershipFrozenAfterDraft ==
    [][\A s \in DOMAIN vote_session :
        vote_session[s].status # DRAFT
        => /\ session_restaurants(s)' = session_restaurants(s)
           /\ \A w \in Workers :
                ("add" \in {last'.op, txn'[w].op} \/ "remove" \in {last'.op, txn'[w].op})
                => \A ids \in IdLists :
                    /\ add_restaurants_to_session(w, s, ids, creator(s))
                        => refused("add", InvalidState)
                    /\ remove_restaurants_from_session(w, s, ids, creator(s))
                        => refused("remove", InvalidState)]_vars

\* some id of the list resolves to no restaurant
unresolved(ids) == \E i \in DOMAIN ids : ids[i] \notin Restaurants

\* C21: add by the creator on a DRAFT session with a list holding an id that
\* resolves to no restaurant fails with NotFound and adds no restaurant, not
\* even those of the list that do resolve.
C21_AddUnknownRestaurantRejected ==
    [][\A s \in DOMAIN vote_session, w \in Workers, ids \in IdLists :
        (/\ vote_session[s].status = DRAFT
         /\ unresolved(ids)
         /\ add_restaurants_to_session(w, s, ids, creator(s)))
        => (/\ refused("add", NotFound)
            /\ session_restaurants(s)' = session_restaurants(s))]_vars

\* an add has just been refused with NotFound on a draft session that is
\* short of a restaurant
C21_Witness ==
    /\ last.op = "add" /\ last.res = NotFound
    /\ vote_session[last.sid].status = DRAFT
    /\ session_restaurants(last.sid) # Restaurants

\* C22: remove by the creator on a DRAFT session with a list holding an id
\* that resolves to no restaurant fails with NotFound and leaves the
\* restaurants of the session as they were.
C22_RemoveUnknownRestaurantRejected ==
    [][\A s \in DOMAIN vote_session, w \in Workers, ids \in IdLists :
        (/\ vote_session[s].status = DRAFT
         /\ unresolved(ids)
         /\ remove_restaurants_from_session(w, s, ids, creator(s)))
        => (/\ refused("remove", NotFound)
            /\ session_restaurants(s)' = session_restaurants(s))]_vars

C24_DifferentUsersIndependent ==
    [][\A w \in Workers :
        /\ \A s \in DOMAIN vote_session, r \in Restaurants, u \in Users :
            (/\ vote_session[s].status = ACTIVE /\ ~ expired(s)
             /\ <<s, r>> \in vote_session_restaurants
             /\ user_vote_count(s, u) < vote_session[s].votes_per_user
             /\ vote_in_session(w, s, r, u))
            => (txn'[w].op = "vote" /\ txn'[w].user_id = u)
        /\ vote_in_session_commit(w)
            => (/\ last'.res = Ok
                /\ last'.seq = user_vote_count(txn[w].sid, txn[w].user_id) + 1
                /\ \E v \in vote_participation' \ vote_participation :
                    /\ v.user_id = txn[w].user_id
                    /\ v.vote_sequence = last'.seq)]_vars

\* the cast of one user has just succeeded while the cast of another user,
\* which read the ledger before it, is still in flight for the same sequence
C24_Witness ==
    /\ last.op = "vote" /\ last.res = Ok
    /\ \E w \in Workers, v \in vote_participation :
        /\ txn[w].op = "vote"
        /\ v.user_id # txn[w].user_id
        /\ v.vote_sequence = txn[w].seq
        /\ v.vote_session_id = txn[w].sid

\* the retrying caller is through: its vote is recorded, or the budget is
\* used up or the session no longer ACTIVE, so that its cast is refused
caster_ended ==
    \/ \E v \in vote_participation : v.restaurant_id = 1
    \/ user_vote_count(1, 1) >= vote_session[1].votes_per_user
    \/ vote_session[1].status # ACTIVE

\* C25: a caller that retries after ConstraintViolation by re-reading the
\* count ends after finitely many retries with its vote recorded under the
\* re-read count + 1, or with BudgetExhausted or InvalidState; no retry
\* creates a duplicate slot, a gap in the sequences or a count above the
\* budget.
C25_RetryTerminatesSafely ==
    /\ [](C3_UniqueSlots /\ C10_Dense /\ C2_BudgetNeverExceeded)
    /\ [][/\ caster_cast
            => \/ /\ txn'[1].op = "vote"
                  /\ txn'[1].seq = user_vote_count(1, 1) + 1
               \/ /\ last'.res \in {BudgetExhausted, InvalidState}
                  /\ UNCHANGED <<db, txn>>
          /\ vote_in_session_commit(1)
            => \/ /\ last'.res = Ok
                  /\ vote_participation' \ vote_participation =
                        {[vote_session_id |-> 1, user_id |-> 1, restaurant_id |-> 1,
                          vote_sequence |-> txn[1].seq, weight |-> W(txn[1].seq),
                          voted_at |-> now]}
               \/ /\ last'.res = ConstraintViolation
                  /\ vote_participation' = vote_participation
                  /\ user_vote_count(1, 1) >= txn[1].seq]_vars
    /\ (last.res = ConstraintViolation) ~> caster_ended
    /\ <>caster_ended

\* the caller lost a race, cast again and has its vote recorded as the second
C25_Witness ==
    /\ last.op = "vote" /\ last.res = Ok
    /\ \E v \in vote_participation : v.restaurant_id = 1 /\ v.vote_sequence = 2
    /\ \E v \in vote_participation : v.restaurant_id = 2 /\ v.vote_sequence = 1
    /\ txn[1].op = "idle"
\* C26: soft-deleting or reactivating a restaurant changes no session's
\* results: the rows the results query may return (restaurant id, name,
\* weighted_votes, distinct_voters) and total_votes are the same before and
\* after the request.
C26_CatalogChangeKeepsResults ==
    [][(\E r \in RestaurantIds : soft_delete(r) \/ reactivate(r))
        => \A s \in SessionIds :
            /\ results_query(s)' = results_query(s)
            /\ total_votes_query(s)' = total_votes_query(s)]_vars

\* a restaurant with a vote in the ended session has been soft-deleted
C26_Witness ==
    /\ last.op = "delete" /\ last.res = Ok
    /\ \E v \in vote_participation : v.restaurant_id = last.id
    /\ results_query(1) # {<<>>}

\* C27: soft_delete of a member of a session with status ACTIVE fails and
\* leaves the restaurant active; soft_delete of an existing restaurant that
\* is a member of no ACTIVE session succeeds and leaves its row inactive.
C27_SoftDeleteMarksInactive ==
    [][\A r \in RestaurantIds : soft_delete(r) =>
        IF is_in_active_sessions(r)
        THEN last'.res = InvalidState /\ restaurant'[r].is_active
        ELSE r \in DOMAIN restaurant =>
                last'.res = Ok /\ ~ restaurant'[r].is_active]_vars

\* C28: a served create leaves a new session in DRAFT with no member
\* restaurants, started_at and ended_at unset and votes_per_user >= 1; a
\* create with auto_close_at <= now is rejected and creates no session; no
\* session is created with an auto_close_at that is already past.
C28_CreateDraftNeverPastDeadline ==
    [][/\ \A w \in Workers, u \in Users, n \in 0..MaxVotesPerUser,
             a \in Times, aware \in BOOLEAN :
            (create_vote_session(w, u, n, a, aware) /\ a <= now)
            => (last'.res = Unprocessable /\ UNCHANGED <<db, txn>>)
       /\ \A w \in Workers : create_vote_session_commit(w) =>
            LET sid == Len(vote_session')
                row == vote_session'[sid]
            IN  /\ row.status = DRAFT
                /\ ~ \E r \in Restaurants : <<sid, r>> \in vote_session_restaurants'
                /\ row.started_at = None /\ row.ended_at = None
                /\ row.votes_per_user >= 1
                /\ row.auto_close_at = None \/ row.auto_close_at > now]_vars

\* C29: no step modifies or deletes a persisted vote record: every record
\* is found unchanged (session, user, restaurant, sequence, weight) in the
\* next state, and a served cast adds exactly one record, whose sequence
\* is the number of the user's records in the session plus one.
C29_VoteRecordsAppendOnly ==
    [][/\ vote_participation \subseteq vote_participation'
       /\ \A w \in Workers :
            (vote_in_session_commit(w) /\ last'.res = Ok)
            => \E v \in vote_participation' \ vote_participation :
                /\ vote_participation' = vote_participation \cup {v}
                /\ v.vote_sequence
                      = user_vote_count(v.vote_session_id, v.user_id) + 1]_vars

\* a user has changed preference: a second record, for another restaurant,
\* beside the first
C29_Witness ==
    /\ last.op = "vote" /\ last.res = Ok /\ last.seq = 2
    /\ \E v1 \in vote_participation, v2 \in vote_participation :
        /\ v1.user_id = v2.user_id
        /\ v1.vote_sequence = 1 /\ v2.vote_sequence = 2
        /\ v1.restaurant_id # v2.restaurant_id

C31_OneDailyVotePerUser ==
    [][/\ \A w \in Workers, u \in Users, r \in Restaurants :
            create_vote(w, u, r, TRUE, TRUE) => txn'[w].op = "daily"
       /\ \A w \in Workers : create_vote_commit(w) =>
            \E i \in DOMAIN vote' :
                /\ vote'[i].user_id = txn[w].user_id
                /\ vote'[i].vote_date = txn[w].at
                /\ vote'[i].restaurant_id \in txn[w].rids
       /\ \A i \in DOMAIN vote', j \in DOMAIN vote' :
            (vote'[i].user_id = vote'[j].user_id
                /\ vote'[i].vote_date = vote'[j].vote_date) => i = j]_vars

\* the cast finds the session open: committed as ACTIVE and not past its
\* deadline
open(s) == vote_session[s].status = ACTIVE /\ ~ expired(s)

\* C32: a cast reports the first failing check in the order session
\* existence, status after the sweep, membership, budget: for a restaurant
\* that is no member it answers InvalidState when the session is not open
\* and NotMember when it is open, also when the user's budget is used up;
\* BudgetExhausted is answered only for a member of an open session.
C32_CastCheckOrder ==
    [][\A w \in Workers, s \in SessionIds, r \in RestaurantIds, u \in Users :
        vote_in_session(w, s, r, u) =>
            IF s \notin DOMAIN vote_session THEN refused("vote", NotFound)
            ELSE IF ~ open(s) THEN refused("vote", InvalidState)
            ELSE IF r \notin session_restaurants(s) THEN refused("vote", NotMember)
            ELSE IF user_vote_count(s, u) >= vote_session[s].votes_per_user
            THEN refused("vote", BudgetExhausted)
            ELSE txn'[w].op = "vote"]_vars

\* a cast has been answered NotMember in an open session in which every
\* user's budget is used up
C32_Witness ==
    /\ last.op = "vote" /\ last.res = NotMember
    /\ open(last.sid)
    /\ \A u \in Users :
        user_vote_count(last.sid, u) >= vote_session[last.sid].votes_per_user

\* C33: once a session is committed as CLOSED no step commits a vote
\* record of it, so its rows, its results and its total never change, also
\* when a cast that read it as ACTIVE commits after the closing request.
C33_ClosedSessionLedgerFrozen ==
    [][\A s \in DOMAIN vote_session :
        vote_session[s].status = CLOSED
        => /\ session_votes(s)' = session_votes(s)
           /\ results_query(s)' = results_query(s)
           /\ total_votes_query(s)' = total_votes_query(s)]_vars

\* C34: every session committed as ACTIVE or CLOSED has at least one member
\* restaurant, also when start and remove run concurrently on the draft.
C34_StartedSessionHasRestaurants ==
    \A s \in DOMAIN vote_session :
        vote_session[s].status \in {ACTIVE, CLOSED} => session_restaurants(s) # {}

\* C35: after every step, started_at is set exactly when the status is
\* ACTIVE or CLOSED, ended_at exactly when it is CLOSED, started_at <=
\* ended_at when both are set, and a timestamp that was set keeps its value.
C35_TimestampsFollowStatus ==
    [][\A s \in DOMAIN vote_session' :
        LET row == vote_session'[s]
        IN  /\ (row.started_at # None) <=> (row.status \in {ACTIVE, CLOSED})
            /\ (row.ended_at # None) <=> (row.status = CLOSED)
            /\ (row.started_at # None /\ row.ended_at # None)
                    => row.started_at <= row.ended_at
            /\ s \in DOMAIN vote_session =>
                /\ vote_session[s].started_at # None
                        => row.started_at = vote_session[s].started_at
                /\ vote_session[s].ended_at # None
                        => row.ended_at = vote_session[s].ended_at]_vars

\* C36: the listing of the active sessions never contains a session whose
\* auto_close_at is set and has passed at the time of the listing.
C36_ListingHidesExpired ==
    [][\A skip \in 0..1, limit \in 1..MaxSessions :
        get_active_sessions(skip, limit)
        => \A s \in last'.sessions :
            \/ vote_session[s].auto_close_at = None
            \/ vote_session[s].auto_close_at > now]_vars

\* session b as the tables hold it: its row, its members and its votes
session_state(b) == <<vote_session[b], session_restaurants(b), session_votes(b)>>

\* C37: a cast that targets session a, served or refused, leaves every
\* other session's row, membership and vote records as they were.
C37_CastTouchesOnlyItsSession ==
    [][\A w \in Workers :
        /\ \A a \in SessionIds, r \in RestaurantIds, u \in Users :
            vote_in_session(w, a, r, u)
            => \A b \in DOMAIN vote_session \ {a} :
                session_state(b)' = session_state(b)
        /\ vote_in_session_commit(w)
            => \A b \in DOMAIN vote_session \ {txn[w].sid} :
                session_state(b)' = session_state(b)]_vars

\* C38: for a DRAFT session and its creator, an add whose ids all resolve
\* is taken on, also with an id repeated in the list or a member already,
\* and its commit leaves the old membership united with the ids; a remove
\* is taken on and its commit leaves the old membership minus the ids.
C38_MembershipIsASet ==
    [][\A w \in Workers, s \in DOMAIN vote_session :
        /\ \A ids \in IdLists :
            (/\ vote_session[s].status = DRAFT
             /\ Range(ids) \subseteq Restaurants
             /\ add_restaurants_to_session(w, s, ids, creator(s)))
            => (/\ txn'[w].op = "add"
                /\ session_restaurants(s) \cup txn'[w].rids
                        = session_restaurants(s) \cup Range(ids))
        /\ (txn[w].op = "add" /\ txn[w].sid = s /\ add_restaurants_commit(w))
            => session_restaurants(s)' = session_restaurants(s) \cup txn[w].rids
        /\ \A ids \in IdLists :
            (/\ vote_session[s].status = DRAFT
             /\ remove_restaurants_from_session(w, s, ids, creator(s)))
            => txn'[w].op = "remove"
        /\ (txn[w].op = "remove" /\ txn[w].sid = s /\ remove_restaurants_commit(w))
            => session_restaurants(s)' = session_restaurants(s) \ txn[w].rids]_vars

C40_ResultRowsAreVotedMembers ==
    [][\A w \in Workers :
        (get_session_with_results(w) /\ last'.res = Ok) =>
            LET q == last'.results
            IN  /\ \A i \in DOMAIN q :
                    /\ q[i].restaurant_id \in session_restaurants(last'.sid)
                    /\ q[i].weighted_votes >= 25
                    /\ q[i].distinct_voters >= 1
                /\ \A i \in DOMAIN q, j \in DOMAIN q :
                    q[i].restaurant_id = q[j].restaurant_id => i = j
                /\ (q = <<>>) <=> (last'.total_votes = 0)]_vars

====
